---- MODULE Spec2Model ----
(***************************************************************************)
(* Model of Data_Cleaning_Scripts/Clean_Data.py: the three functions       *)
(* process_ecg_data, process_cgm_data, merge_resampled_data and the        *)
(* __main__ run that chains them over the files of one patient.            *)
(*                                                                         *)
(* Time is in whole seconds; a 1-minute bin is BinSeconds seconds.         *)
(* A numeric cell is an exact rational <<n, d>> (d > 0) counted in         *)
(* hundredths of the measured unit, so 0.55 is <<55, 1>> and rounding to   *)
(* two decimals is rounding to an integer; NaN is the pair <<0, 0>>.       *)
(* A CSV file on disk is a record [exists, header, rows].                  *)
(***************************************************************************)
EXTENDS Integers, Sequences, FiniteSets

\* ---------------------------------------------------------------- bounds
\* Number of waveform files of the patient (the script lists five).
NumEcg == 2
\* Largest minute of a raw timestamp, and most data rows in a raw file, for
\* the calls of a single function on a stored input.
MaxMinute == 2
MaxRows == 2
\* The same two bounds for the raw files met by the whole run.
RunMinute == 1
RunRows == 2

\* '1T': the resampling rule, one minute, in seconds.
BinSeconds == 60

\* ------------------------------------------------------ numbers (float64)
NaN == <<0, 0>>
isna(v) == v[2] = 0
notna(v) == v[2] # 0

RECURSIVE GCD(_, _)
GCD(a, b) == IF b = 0 THEN a ELSE GCD(b, a % b)

\* The rational n/d (n >= 0, d > 0) in lowest terms.
Rat(n, d) == LET g == GCD(n, d) IN IF g = 0 THEN <<0, 1>> ELSE <<n \div g, d \div g>>
Num(k) == <<k, 1>>
RAdd(a, b) == Rat(a[1] * b[2] + b[1] * a[2], a[2] * b[2])
RScale(a, k) == Rat(a[1] * k, a[2])
RDiv(a, k) == Rat(a[1], a[2] * k)

RECURSIVE RSum(_)
RSum(vs) == IF vs = <<>> THEN Num(0) ELSE RAdd(Head(vs), RSum(Tail(vs)))

\* Series.mean(): NaN cells are skipped; the mean of no cell is NaN.
mean(vs) ==
  LET kept == SelectSeq(vs, notna)
  IN IF kept = <<>> THEN NaN ELSE RDiv(RSum(kept), Len(kept))

\* DataFrame.round(2) on one cell: to the nearest hundredth, ties to even
\* (numpy.around); NaN stays NaN.
round2(v) ==
  IF isna(v) THEN NaN
  ELSE LET q == v[1] \div v[2]
           r == v[1] % v[2]
       IN IF 2 * r < v[2] THEN Num(q)
          ELSE IF 2 * r > v[2] THEN Num(q + 1)
          ELSE IF q % 2 = 0 THEN Num(q) ELSE Num(q + 1)

\* ------------------------------------------------------------ timestamps
\* A raw timestamp cell is either text that parses to an instant (held as the
\* instant, a number of seconds >= 0) or text that does not (BadText); the
\* missing instant NaT is below every instant.
BadText == -2
NaT == -1
\* pd.to_datetime(..., errors='coerce') on one cell.
to_datetime(cell) == IF cell = BadText THEN NaT ELSE cell

FloorMinute(t) == t - (t % BinSeconds)
CeilMinute(t) == FloorMinute(t + BinSeconds - 1)

\* ----------------------------------------------------------------- files
NoFile == [exists |-> FALSE, header |-> <<>>, rows |-> <<>>]
CsvFile(h, rs) == [exists |-> TRUE, header |-> h, rows |-> rs]
EcgHeader == <<"Timestamp", "EcgWaveform">>
CgmHeader == <<"Timestamp", "Glucose">>
MergedHeader == <<"Timestamp", "Glucose", "EcgWaveform">>

\* DataFrame.empty left unchecked.
DfEmptyNever(rows) == FALSE

\* os.path.exists
os_path_exists(f) == f.exists
\* DataFrame.empty: no data rows.
DfEmpty(rows) == Len(rows) = 0

SeqMin(ts) == CHOOSE x \in {ts[i] : i \in 1..Len(ts)} : \A j \in 1..Len(ts) : x <= ts[j]
SeqMax(ts) == CHOOSE x \in {ts[i] : i \in 1..Len(ts)} : \A j \in 1..Len(ts) : x >= ts[j]

\* --------------------------------------------------------- resample('1T')
\* The last bin labelled by the minute after the latest sample.
LastBinCeil(tmax) == CeilMinute(tmax)

\* Label of the last bin: bins are closed on the left and labelled by their
\* left edge, so the last one is the minute that holds the latest sample.
LastBin(tmax) == FloorMinute(tmax)

\* Series.resample('1T').mean() of samples [t, v]: one row per minute from
\* the first bin to the last, the mean of the bin's cells, NaN for a bin
\* with no (non-NaN) cell. No sample gives no row.
Resample(samples) ==
  IF samples = <<>> THEN <<>>
  ELSE LET ts == [i \in 1..Len(samples) |-> samples[i].t]
           lo == FloorMinute(SeqMin(ts))
           hi == LastBin(SeqMax(ts))
           InBin(b) == LET In(s) == FloorMinute(s.t) = b
                           hit == SelectSeq(samples, In)
                       IN [i \in 1..Len(hit) |-> hit[i].v]
       IN [k \in 1..((hi - lo) \div BinSeconds + 1) |->
             [t |-> lo + BinSeconds * (k - 1),
              v |-> mean(InBin(lo + BinSeconds * (k - 1)))]]

\* Series.interpolate(method='linear'), limit_direction 'forward': a NaN
\* between two known cells is filled on the straight line between them
\* (cells equally spaced), a NaN after the last known cell repeats it, a NaN
\* before the first known cell stays NaN.
interpolate(rows) ==
  LET n == Len(rows)
      Known == {i \in 1..n : notna(rows[i].v)}
      Fill(k) ==
        LET before == {i \in Known : i < k}
            after == {i \in Known : i > k}
        IN IF before = {} THEN NaN
           ELSE LET p == CHOOSE i \in before : \A j \in before : j <= i
                IN IF after = {} THEN rows[p].v
                   ELSE LET q == CHOOSE i \in after : \A j \in after : i <= j
                        IN RDiv(RAdd(RScale(rows[p].v, q - k),
                                     RScale(rows[q].v, k - p)), q - p)
  IN [k \in 1..n |-> IF notna(rows[k].v) THEN rows[k]
                     ELSE [t |-> rows[k].t, v |-> Fill(k)]]

\* ------------------------------------------------------ process_ecg_data
\* A raw input file: [exists, raises, rows]. raises marks a file on which a
\* pandas call of the function throws (zero bytes, a wrong number of columns,
\* text in the value column); rows are its data rows.
RawFile(rs) == [exists |-> TRUE, raises |-> FALSE, rows |-> rs]
MissingRaw == [exists |-> FALSE, raises |-> TRUE, rows |-> <<>>]
BrokenRaw == [exists |-> TRUE, raises |-> TRUE, rows |-> <<>>]

\* What a function body hands back: whether an exception left it, the message
\* it printed, and the file it wrote (when outcome = "saved").
Returned(msg) == [raised |-> FALSE, outcome |-> msg, file |-> NoFile]
Saved(f) == [raised |-> FALSE, outcome |-> "saved", file |-> f]
Raised == [raised |-> TRUE, outcome |-> "raised", file |-> NoFile]

\* A handler that lets the exception through.
except_Nothing(res) == res

\* except Exception as e: print(...)
except_Exception(res) == IF res.raised THEN Returned("error") ELSE res

\* Lines 25-27: the rows whose Time parses, as samples [t, v].
ecg_df(rows) ==
  LET parsed == [i \in 1..Len(rows) |->
                   [t |-> to_datetime(rows[i].Time), v |-> rows[i].EcgWaveform]]
      HasTime(s) == s.t # NaT
  IN SelectSeq(parsed, HasTime)

\* The waveform resampled and then interpolated, as the glucose is.
ecg_resampled_interp(samples) == interpolate(Resample(samples))

\* ecg_df['EcgWaveform'].resample('1T').mean()
ecg_resampled(samples) == Resample(samples)

ecg_resampled_df(samples) ==
  LET r == ecg_resampled(samples)
  IN [k \in 1..Len(r) |-> [Timestamp |-> r[k].t, EcgWaveform |-> r[k].v]]

ecg_try(input) ==
  IF input.raises THEN Raised
  ELSE IF DfEmpty(input.rows) THEN Returned("empty")
  ELSE Saved(CsvFile(EcgHeader, ecg_resampled_df(ecg_df(input.rows))))

process_ecg_data(input) == except_Exception(ecg_try(input))

\* ------------------------------------------------------ process_cgm_data
\* Lines 62-64: the rows whose date and time parse and whose type is 'cgm'.
cgm_df(rows) ==
  LET parsed == [i \in 1..Len(rows) |->
                   [t |-> to_datetime(rows[i].stamp), type |-> rows[i].type,
                    v |-> rows[i].glucose]]
      Keep(s) == s.t # NaT /\ s.type = "cgm"
      kept == SelectSeq(parsed, Keep)
  IN [i \in 1..Len(kept) |-> [t |-> kept[i].t, v |-> kept[i].v]]

\* cgm_df['glucose'].resample('1T').mean().interpolate(method='linear')
cgm_resampled(samples) == interpolate(Resample(samples))

cgm_resampled_df(samples) ==
  LET r == cgm_resampled(samples)
  IN [k \in 1..Len(r) |-> [Timestamp |-> r[k].t, Glucose |-> r[k].v]]

cgm_try(input) ==
  IF input.raises THEN Raised
  ELSE IF DfEmpty(input.rows) THEN Returned("empty")
  ELSE Saved(CsvFile(CgmHeader, cgm_resampled_df(cgm_df(input.rows))))

process_cgm_data(input) == except_Exception(cgm_try(input))

\* The file at an output path after a call: written only on "saved".
Written(res, old) == IF res.outcome = "saved" THEN res.file ELSE old

\* -------------------------------------------------- merge_resampled_data
RECURSIVE Concat(_)
Concat(frames) == IF frames = <<>> THEN <<>> ELSE Head(frames) \o Concat(Tail(frames))

\* DataFrame.sort_values(by='Timestamp'); rows of equal Timestamp keep the
\* order they had (numpy sorts short arrays by insertion). Row i goes to the
\* place after the rows that are earlier, or as early and before it.
sort_values(frame) ==
  LET n == Len(frame)
      Place(i) == Cardinality({j \in 1..n :
                     \/ frame[j].Timestamp < frame[i].Timestamp
                     \/ frame[j].Timestamp = frame[i].Timestamp /\ j < i}) + 1
  IN [k \in 1..n |-> frame[CHOOSE i \in 1..n : Place(i) = k]]

\* Lines 107-114: the frames of the processed ECG files that exist and have rows.
RECURSIVE ecg_df_list(_)
ecg_df_list(files) ==
  IF files = <<>> THEN <<>>
  ELSE LET f == Head(files)
       IN (IF os_path_exists(f) /\ ~DfEmpty(f.rows) THEN <<f.rows>> ELSE <<>>)
          \o ecg_df_list(Tail(files))

\* Lines 120-121: concatenate, sort, drop the rows with a NaN.
all_ecg_df(frames) ==
  LET HasValue(r) == notna(r.EcgWaveform)
  IN SelectSeq(sort_values(Concat(frames)), HasValue)

\* pd.merge(cgm_df, all_ecg_df, on='Timestamp', how='inner'): for each left
\* row in order, one output row per right row of the same Timestamp.
RECURSIVE pd_merge(_, _)
pd_merge(left, right) ==
  IF left = <<>> THEN <<>>
  ELSE LET l == Head(left)
           Same(r) == r.Timestamp = l.Timestamp
           hit == SelectSeq(right, Same)
       IN [j \in 1..Len(hit) |->
             [Timestamp |-> l.Timestamp, Glucose |-> l.Glucose,
              EcgWaveform |-> hit[j].EcgWaveform]]
          \o pd_merge(Tail(left), right)

\* Line 138: both value columns rounded to two decimals.
round_df(frame) ==
  [k \in 1..Len(frame) |->
     [Timestamp |-> frame[k].Timestamp, Glucose |-> round2(frame[k].Glucose),
      EcgWaveform |-> round2(frame[k].EcgWaveform)]]

\* Lines 131-135: the empty merge is written straight to the output path, so
\* to_csv raises when the directory of that path does not exist.
write_empty(dirExists) ==
  IF dirExists THEN [raised |-> FALSE, outcome |-> "empty_merge",
                     file |-> CsvFile(MergedHeader, <<>>)]
  ELSE Raised

\* A guard that answers a missing processed CGM file with an empty artifact.
cgm_guard_writes(cgm_file) ==
  IF ~os_path_exists(cgm_file)
  THEN [raised |-> FALSE, outcome |-> "empty_merge", file |-> CsvFile(MergedHeader, <<>>)]
  ELSE IF DfEmpty(cgm_file.rows) THEN Returned("cgm_empty")
  ELSE Returned("go")

\* Lines 97-104: the merge is abandoned, with nothing written, when the
\* processed CGM file is missing or has no rows.
cgm_guard(cgm_file) ==
  IF ~os_path_exists(cgm_file) THEN Returned("cgm_not_found")
  ELSE IF DfEmpty(cgm_file.rows) THEN Returned("cgm_empty")
  ELSE Returned("go")

merge_try(cgm_file, ecg_files, dirExists) ==
  IF cgm_guard(cgm_file).outcome # "go" THEN cgm_guard(cgm_file)
  ELSE LET frames == ecg_df_list(ecg_files)
       IN IF frames = <<>> THEN Returned("no_ecg")
          ELSE LET merged_df == pd_merge(cgm_file.rows, all_ecg_df(frames))
               IN IF DfEmpty(merged_df) THEN write_empty(dirExists)
                  ELSE Saved(CsvFile(MergedHeader, round_df(merged_df)))

merge_resampled_data(cgm_file, ecg_files, dirExists) ==
  except_Exception(merge_try(cgm_file, ecg_files, dirExists))

\* The merged artifact after a call: written on "saved" and "empty_merge".
MergeWritten(res, old) ==
  IF res.outcome \in {"saved", "empty_merge"} THEN res.file ELSE old

\* ---------------------------------------------------------------- inputs
SecondOffsets == {0, 30}
EcgValues == {NaN, Num(55)}
GlucoseValues == {NaN, Num(10000)}
RowTypes == {"cgm", "other"}

RawTimes(maxMinute) ==
  {m * BinSeconds + o : m \in 0..maxMinute, o \in SecondOffsets} \cup {BadText}

SeqsUpTo(S, n) == UNION {[1..k -> S] : k \in 0..n}

RawEcgRows(maxMinute) ==
  [Time : RawTimes(maxMinute), EcgWaveform : EcgValues]
RawCgmRows(maxMinute) ==
  [stamp : RawTimes(maxMinute), type : RowTypes, glucose : GlucoseValues]

RawEcgInputs(maxMinute, maxRows) ==
  {RawFile(rs) : rs \in SeqsUpTo(RawEcgRows(maxMinute), maxRows)} \cup {BrokenRaw}
RawCgmInputs(maxMinute, maxRows) ==
  {RawFile(rs) : rs \in SeqsUpTo(RawCgmRows(maxMinute), maxRows)} \cup {BrokenRaw}

\* The two input files of the documented end-to-end example: glucose 100, 110,
\* 120 at 00:00:05, 00:01:10, 00:02:00; four waveform samples in minute 00:00
\* of mean 0.55, none in 00:01, two in 00:02 of mean 0.30.
ScenarioCgm ==
  RawFile(<<[stamp |-> 5, type |-> "cgm", glucose |-> Num(10000)],
            [stamp |-> 70, type |-> "cgm", glucose |-> Num(11000)],
            [stamp |-> 120, type |-> "cgm", glucose |-> Num(12000)]>>)
ScenarioEcg ==
  RawFile(<<[Time |-> 0, EcgWaveform |-> Num(50)], [Time |-> 10, EcgWaveform |-> Num(60)],
            [Time |-> 20, EcgWaveform |-> Num(50)], [Time |-> 30, EcgWaveform |-> Num(60)],
            [Time |-> 120, EcgWaveform |-> Num(25)], [Time |-> 130, EcgWaveform |-> Num(35)]>>)

\* What the run can get from processing one raw file that exists.
RunEcgResults == {process_ecg_data(f) : f \in RawEcgInputs(RunMinute, RunRows)}
RunCgmResults == {process_cgm_data(f) : f \in RawCgmInputs(RunMinute, RunRows)}

\* Files an earlier run may have left at the output paths.
StaleEcgFile == CsvFile(EcgHeader, <<[Timestamp |-> 0, EcgWaveform |-> Num(55)]>>)
StaleCgmFile == CsvFile(CgmHeader, <<[Timestamp |-> 0, Glucose |-> Num(10000)]>>)
StaleMergedFile ==
  CsvFile(MergedHeader,
          <<[Timestamp |-> 0, Glucose |-> Num(10000), EcgWaveform |-> Num(55)]>>)

\* ----------------------------------------------------------------- state
VARIABLES
  pc,            \* where the run is: "ecg", "cgm", "merge", "done", "crashed"
  idx,           \* the waveform file the loop of step 1 is at
  ecgInput,      \* the raw waveform file handed to a direct call
  cgmInput,      \* the raw scalar file handed to a direct call
  procEcg,       \* the files at the processed waveform paths
  procCgm,       \* the file at the processed scalar path
  merged,        \* the file at the merged output path
  outDir,        \* whether the directory of the merged output path exists
  ecgOutcome,    \* per waveform file, the message its step printed
  cgmOutcome,    \* the message the scalar step printed
  mergeOutcome   \* the message the merge printed

vars == <<pc, idx, ecgInput, cgmInput, procEcg, procCgm, merged, outDir,
          ecgOutcome, cgmOutcome, mergeOutcome>>

EcgIds == 1..NumEcg
ecg_files == [i \in EcgIds |-> procEcg[i]]

\* After a step of the loop over the waveform files.
NextEcg(res) ==
  /\ pc' = IF res.raised THEN "crashed" ELSE IF idx = NumEcg THEN "cgm" ELSE "ecg"
  /\ idx' = IF idx = NumEcg THEN idx ELSE idx + 1

\* ------------------------------------------------------- the __main__ run
\* The patient's directory holds the raw scalar file, the processed scalar
\* file and the merged file, and the waveform files lie below it: when it
\* does not exist there is no file at all.
Init ==
  /\ pc = "ecg"
  /\ idx = 1
  /\ ecgInput = MissingRaw
  /\ cgmInput = MissingRaw
  /\ outDir \in BOOLEAN
  /\ procEcg \in [EcgIds -> IF outDir THEN {NoFile, StaleEcgFile} ELSE {NoFile}]
  /\ procCgm \in IF outDir THEN {NoFile, StaleCgmFile} ELSE {NoFile}
  /\ merged \in IF outDir THEN {NoFile, StaleMergedFile} ELSE {NoFile}
  /\ ecgOutcome = [i \in EcgIds |-> "pending"]
  /\ cgmOutcome = "pending"
  /\ mergeOutcome = "pending"

\* Lines 168-172, the raw waveform file is not there.
MainEcgNotFound ==
  /\ pc = "ecg"
  /\ ecgOutcome' = [ecgOutcome EXCEPT ![idx] = "not_found"]
  /\ NextEcg(Returned("not_found"))
  /\ UNCHANGED <<ecgInput, cgmInput, procEcg, procCgm, merged, outDir,
                 cgmOutcome, mergeOutcome>>

\* Lines 168-170, the raw waveform file is there and is processed.
MainEcg ==
  /\ pc = "ecg"
  /\ outDir
  /\ \E res \in RunEcgResults :
       /\ procEcg' = [procEcg EXCEPT ![idx] = Written(res, procEcg[idx])]
       /\ ecgOutcome' = [ecgOutcome EXCEPT ![idx] = res.outcome]
       /\ NextEcg(res)
  /\ UNCHANGED <<ecgInput, cgmInput, procCgm, merged, outDir, cgmOutcome, mergeOutcome>>

\* Lines 174-177, the raw scalar file is not there.
MainCgmNotFound ==
  /\ pc = "cgm"
  /\ cgmOutcome' = "not_found"
  /\ pc' = "merge"
  /\ UNCHANGED <<idx, ecgInput, cgmInput, procEcg, procCgm, merged, outDir,
                 ecgOutcome, mergeOutcome>>

\* Lines 174-175, the raw scalar file is there and is processed.
MainCgm ==
  /\ pc = "cgm"
  /\ outDir
  /\ \E res \in RunCgmResults :
       /\ procCgm' = Written(res, procCgm)
       /\ cgmOutcome' = res.outcome
       /\ pc' = IF res.raised THEN "crashed" ELSE "merge"
  /\ UNCHANGED <<idx, ecgInput, cgmInput, procEcg, merged, outDir, ecgOutcome,
                 mergeOutcome>>

\* Lines 180-183: the merge, then the closing message.
MainMerge ==
  /\ pc = "merge"
  /\ LET res == merge_resampled_data(procCgm, ecg_files, outDir)
     IN /\ merged' = MergeWritten(res, merged)
        /\ mergeOutcome' = res.outcome
        /\ outDir' = (outDir \/ res.outcome = "saved")
        /\ pc' = IF res.raised THEN "crashed" ELSE "done"
  /\ UNCHANGED <<idx, ecgInput, cgmInput, procEcg, procCgm, ecgOutcome, cgmOutcome>>

Next == MainEcgNotFound \/ MainEcg \/ MainCgmNotFound \/ MainCgm \/ MainMerge

Spec == Init /\ [][Next]_vars

\* ------------------------------------------- direct calls of the functions
\* One waveform file and one scalar file, held in ecgInput and cgmInput, go
\* through process_ecg_data, process_cgm_data and merge_resampled_data in
\* turn, with empty output paths to begin with; the merged output path may
\* lie in a directory that does not exist. One of the two files is drawn
\* freely, the other is a fixed one.
LateCgm == RawFile(<<[stamp |-> 630, type |-> "cgm", glucose |-> Num(9000)]>>)

CallInputs ==
  {<<e, c>> : e \in RawEcgInputs(MaxMinute, MaxRows) \cup {ScenarioEcg},
              c \in {ScenarioCgm, LateCgm}}
  \cup {<<ScenarioEcg, c>> : c \in RawCgmInputs(MaxMinute, MaxRows)}

CallInit ==
  /\ pc = "call_ecg"
  /\ idx = 1
  /\ \E p \in CallInputs : ecgInput = p[1] /\ cgmInput = p[2]
  /\ outDir \in BOOLEAN
  /\ procEcg = [i \in EcgIds |-> NoFile]
  /\ procCgm = NoFile
  /\ merged = NoFile
  /\ ecgOutcome = [i \in EcgIds |-> "pending"]
  /\ cgmOutcome = "pending"
  /\ mergeOutcome = "pending"

CallProcessEcg ==
  /\ pc = "call_ecg"
  /\ LET res == process_ecg_data(ecgInput)
     IN /\ procEcg' = [procEcg EXCEPT ![idx] = Written(res, procEcg[idx])]
        /\ ecgOutcome' = [ecgOutcome EXCEPT ![idx] = res.outcome]
        /\ pc' = IF res.raised THEN "crashed" ELSE "call_cgm"
  /\ UNCHANGED <<idx, ecgInput, cgmInput, procCgm, merged, outDir, cgmOutcome,
                 mergeOutcome>>

CallProcessCgm ==
  /\ pc = "call_cgm"
  /\ LET res == process_cgm_data(cgmInput)
     IN /\ procCgm' = Written(res, procCgm)
        /\ cgmOutcome' = res.outcome
        /\ pc' = IF res.raised THEN "crashed" ELSE "call_merge"
  /\ UNCHANGED <<idx, ecgInput, cgmInput, procEcg, merged, outDir, ecgOutcome,
                 mergeOutcome>>

CallMerge ==
  /\ pc = "call_merge"
  /\ LET res == merge_resampled_data(procCgm, ecg_files, outDir)
     IN /\ merged' = MergeWritten(res, merged)
        /\ mergeOutcome' = res.outcome
        /\ outDir' = (outDir \/ res.outcome = "saved")
        /\ pc' = IF res.raised THEN "crashed" ELSE "returned"
  /\ UNCHANGED <<idx, ecgInput, cgmInput, procEcg, procCgm, ecgOutcome, cgmOutcome>>

CallNext == CallProcessEcg \/ CallProcessCgm \/ CallMerge

CallSpec == CallInit /\ [][CallNext]_vars

\* ================================================================ claims
SetMin(S) == CHOOSE x \in S : \A y \in S : x <= y
SetMax(S) == CHOOSE x \in S : \A y \in S : x >= y
Min2(a, b) == IF a <= b THEN a ELSE b

\* The normalized series of the two stored inputs, as sets of instants.
EcgInstants ==
  {to_datetime(ecgInput.rows[i].Time) : i \in 1..Len(ecgInput.rows)} \ {NaT}
CgmInstants ==
  {to_datetime(cgmInput.rows[i].stamp) :
     i \in {j \in 1..Len(cgmInput.rows) : cgmInput.rows[j].type = "cgm"}} \ {NaT}

\* rows holds exactly one row per minute from lo to hi, in order.
IsGrid(rows, lo, hi) ==
  /\ Len(rows) = (hi - lo) \div BinSeconds + 1
  /\ \A k \in 1..Len(rows) : rows[k].Timestamp = lo + BinSeconds * (k - 1)

\* All rows of the processed waveform files, concatenated.
EcgConcat == Concat([i \in EcgIds |-> procEcg[i].rows])
Timestamps(rows) == {rows[i].Timestamp : i \in 1..Len(rows)}
MergeWrote == mergeOutcome \in {"saved", "empty_merge"}
HeaderOnly == CsvFile(MergedHeader, <<>>)

\* ---- C1 (as claimed; refuted by the code): after a run whose merge found the
\* processed CGM file without rows, or no processed ECG file with rows, the
\* merged file is the header Timestamp,Glucose,EcgWaveform with no data row.
C1_EmptyInputStillWritesHeader ==
  (/\ pc = "done"
   /\ procCgm.exists
   /\ procCgm.rows = <<>> \/ \A i \in EcgIds : procEcg[i].rows = <<>>)
  => merged = HeaderOnly

\* ---- C2 (as claimed; refuted): a minute without waveform samples that lies
\* between two minutes with a value gets the interpolated value in the
\* resampled waveform file (the midpoint when the gap is one minute), and the
\* documented example merges to 3 rows, (00:01, 110.00, 0.43) among them.
EcgSampledBins == {FloorMinute(t) : t \in EcgInstants}
EcgValuedBins ==
  {FloorMinute(to_datetime(ecgInput.rows[i].Time)) :
     i \in {j \in 1..Len(ecgInput.rows) :
              /\ to_datetime(ecgInput.rows[j].Time) # NaT
              /\ notna(ecgInput.rows[j].EcgWaveform)}}
EcgGapBins ==
  {b \in {m * BinSeconds : m \in 0..MaxMinute} :
     /\ b \notin EcgSampledBins
     /\ \E a \in EcgValuedBins : a < b
     /\ \E c \in EcgValuedBins : c > b}
IsScenario == ecgInput = ScenarioEcg /\ cgmInput = ScenarioCgm
EcgRowAt(b) == CHOOSE r \in {procEcg[1].rows[i] : i \in 1..Len(procEcg[1].rows)} :
                 r.Timestamp = b

C3_RowsAtMostMin ==
  (pc = "done" /\ MergeWrote)
  => Len(merged.rows) <= Min2(Len(procCgm.rows), Len(EcgConcat))

\* ---- C4 (as claimed; refuted by the code): every row of a merged table written
\* by the run has a Glucose and an EcgWaveform value, neither missing.
C4_NoMissingValue ==
  (pc = "done" /\ MergeWrote)
  => \A i \in 1..Len(merged.rows) :
       notna(merged.rows[i].Glucose) /\ notna(merged.rows[i].EcgWaveform)

\* ---- C5 (as claimed; refuted): when the normalized series of an input file is
\* empty, process_ecg_data / process_cgm_data leave no file at the output path.
C5_EmptySeriesNoFile ==
  /\ (ecgOutcome[1] # "pending" /\ EcgInstants = {}) => procEcg[1] = NoFile
  /\ (cgmOutcome # "pending" /\ CgmInstants = {}) => procCgm = NoFile

\* ---- C5 (amended; holds): an input file without data rows leaves no file at
\* the output path; an input file with data rows whose normalized series is
\* empty (no timestamp parses, or no row has type 'cgm') leaves a file with
\* the header and no data row.
C5_NoRowsNoFileElseHeaderOnly ==
  /\ ecgOutcome[1] # "pending" =>
       /\ ecgInput.rows = <<>> => procEcg[1] = NoFile
       /\ (ecgInput.rows # <<>> /\ EcgInstants = {}) =>
            procEcg[1] = CsvFile(EcgHeader, <<>>)
  /\ cgmOutcome # "pending" =>
       /\ cgmInput.rows = <<>> => procCgm = NoFile
       /\ (cgmInput.rows # <<>> /\ CgmInstants = {}) =>
            procCgm = CsvFile(CgmHeader, <<>>)

C5_Witness ==
  /\ cgmOutcome = "saved"
  /\ CgmInstants = {}
  /\ \E i \in 1..Len(cgmInput.rows) :
       cgmInput.rows[i].type = "other" /\ cgmInput.rows[i].stamp # BadText
  /\ procCgm = CsvFile(CgmHeader, <<>>)

\* ---- C6 (as claimed; refuted by the code): when the processed CGM file and the
\* concatenated processed ECG files both have rows and share no timestamp,
\* the call leaves the header-only merged file and does not fail.
C6_NoOverlapWritesHeader ==
  (/\ pc = "returned"
   /\ procCgm.rows # <<>>
   /\ EcgConcat # <<>>
   /\ Timestamps(procCgm.rows) \cap Timestamps(EcgConcat) = {})
  => (merged = HeaderOnly /\ mergeOutcome = "empty_merge")

\* ---- C7 (holds): whatever the input files are, the run is never left by an
\* exception; the units it has dealt with are exactly those before its
\* position (each waveform file in order, then the scalar file, then the
\* merge), so none is skipped or taken twice, and the merge is attempted
\* once all of them are behind it. (At every position before "done" a step
\* is guarded by the position alone, so a run that is not left by an
\* exception goes on to "done".)
C7_RunsToCompletion ==
  /\ pc \in {"ecg", "cgm", "merge", "done"}
  /\ \A i \in EcgIds : (ecgOutcome[i] # "pending") <=> (pc # "ecg" \/ i < idx)
  /\ (cgmOutcome # "pending") <=> (pc \in {"merge", "done"})
  /\ (mergeOutcome # "pending") <=> (pc = "done")

C7_Witness ==
  /\ pc = "done"
  /\ \E i \in EcgIds : ecgOutcome[i] = "error"
  /\ \E i \in EcgIds : ecgOutcome[i] = "not_found"
  /\ cgmOutcome = "empty"
  /\ mergeOutcome # "pending"

\* ---- C8 (as claimed; refuted by the code): a merged table saved by the run is
\* the merge of the processed CGM file with the processed ECG files of the
\* waveform files this run processed successfully, and of no other.
OwnEcgFiles ==
  [i \in EcgIds |-> IF ecgOutcome[i] = "saved" THEN procEcg[i] ELSE NoFile]

C8_FailedFileContributesNothing ==
  (pc = "done" /\ mergeOutcome = "saved")
  => merged.rows =
       round_df(pd_merge(procCgm.rows, all_ecg_df(ecg_df_list(OwnEcgFiles))))

\* ---- C9 (holds): a merge that finds no processed CGM file changes neither
\* the merged file nor any processed file, and the run goes on to its end.
C9_MissingCgmAbortsOnlyMerge ==
  [][(pc = "merge" /\ ~procCgm.exists)
     => (/\ merged' = merged
         /\ procEcg' = procEcg
         /\ procCgm' = procCgm
         /\ pc' = "done")]_vars

C9_Witness ==
  /\ pc = "done"
  /\ mergeOutcome = "cgm_not_found"
  /\ merged = StaleMergedFile
  /\ \E i \in EcgIds : ecgOutcome[i] = "saved" /\ procEcg[i].rows # <<>>

\* ---- C10 (as claimed; refuted): the resampled output of a non-empty normalized
\* series has one row per minute from the floor of the earliest timestamp
\* to the ceiling of the latest.
C10_GridFloorToCeiling ==
  /\ (ecgOutcome[1] = "saved" /\ EcgInstants # {}) =>
       IsGrid(procEcg[1].rows, FloorMinute(SetMin(EcgInstants)),
              CeilMinute(SetMax(EcgInstants)))
  /\ (cgmOutcome = "saved" /\ CgmInstants # {}) =>
       IsGrid(procCgm.rows, FloorMinute(SetMin(CgmInstants)),
              CeilMinute(SetMax(CgmInstants)))

\* ---- C10 (amended; holds): the resampled output of a non-empty normalized
\* series has one row per minute, none skipped or repeated, from the floor
\* of the earliest timestamp to the floor of the latest.
C10_GridFloorToFloor ==
  /\ (ecgOutcome[1] = "saved" /\ EcgInstants # {}) =>
       IsGrid(procEcg[1].rows, FloorMinute(SetMin(EcgInstants)),
              FloorMinute(SetMax(EcgInstants)))
  /\ (cgmOutcome = "saved" /\ CgmInstants # {}) =>
       IsGrid(procCgm.rows, FloorMinute(SetMin(CgmInstants)),
              FloorMinute(SetMax(CgmInstants)))

C10_Witness ==
  /\ ecgOutcome[1] = "saved"
  /\ cgmOutcome = "saved"
  /\ EcgInstants # {} /\ SetMax(EcgInstants) % BinSeconds # 0
  /\ CgmInstants # {} /\ SetMax(CgmInstants) % BinSeconds # 0
  /\ Len(procEcg[1].rows) >= 2
====
